---- MODULE Spec2Model ----
(***************************************************************************)
(* A model of VisqolManager (src/src/visqol_manager.cc): the manager's     *)
(* members, Init and its Init* helpers, the three Run overloads,           *)
(* ErrorIfNotInitialized, ValidateInputAudio and PopulateSimResultMsg.     *)
(*                                                                         *)
(* The collaborators whose code is not in visqol_manager.cc                *)
(* (MiscAudio::LoadAsMono, AudioSignal::GetDuration,                       *)
(* Alignment::GloballyAlign, Visqol::CalculateSimilarity and the quality   *)
(* mappers' Init) are modelled at their interface: what they return is an  *)
(* input of the action that calls them.                                    *)
(***************************************************************************)
EXTENDS Integers, Sequences, FiniteSets, TLC

(***************************************************************************)
(* Program constants (visqol_manager.cc:45-53).                            *)
(***************************************************************************)
k16kSampleRate == 16000
k48kSampleRate == 48000
kPatchSize == 30
kPatchSizeSpeech == 20
kNumBandsAudio == 32
kNumBandsSpeech == 21
kMinimumFreq == 50
\* kOverlap is 0.25; it is kept here in percent.
kOverlap == 25
\* kDurationMismatchTolerance is 1.0 (seconds).
kDurationMismatchTolerance == 1

(***************************************************************************)
(* Bounds of the model.                                                    *)
(***************************************************************************)
\* Signals last 1..MaxHalfSeconds half seconds.
MaxHalfSeconds == 4
\* The lag found by global alignment is within -MaxLag..MaxLag samples.
MaxLag == 1
\* A batch holds at most MaxBatch pairs.
MaxBatch == 3

\* Durations are compared in milliseconds.
MsPerSecond == 1000

(***************************************************************************)
(* google::protobuf::util::Status and StatusOr<T>.                         *)
(***************************************************************************)
ErrorCodes == {"INVALID_ARGUMENT", "ABORTED", "INTERNAL"}

Status(code, message) == [error_code |-> code, error_message |-> message]

OkStatus == Status("OK", "")

\* A StatusOr holds a status and, exactly when built from a value, that value.
StatusOrError(status) == [status |-> status, value |-> <<>>]

StatusOrValue(v) == [status |-> OkStatus, value |-> <<v>>]

IsOk(status_or) == status_or.status.error_code = "OK"

(***************************************************************************)
(* AudioSignal: a sample rate and the samples.  The samples are kept as    *)
(* their number and the offset, in samples, by which their content has     *)
(* been shifted since decoding.                                            *)
(***************************************************************************)
SampleRates == {k16kSampleRate, k48kSampleRate}

AudioSignal(rate, n, off) == [sample_rate |-> rate, num_samples |-> n, offset |-> off]

\* A decoded signal of h half seconds.
Decoded(rate, h) == AudioSignal(rate, (rate * h) \div 2, 0)

Signals == {Decoded(r, h) : r \in SampleRates, h \in 1..MaxHalfSeconds}

\* AudioSignal::GetDuration: the length over the sample rate, in milliseconds.
GetDuration(signal) == (signal.num_samples * MsPerSecond) \div signal.sample_rate

Abs(x) == IF x < 0 THEN -x ELSE x

(***************************************************************************)
(* Files.  FilePath::Path() is the string itself.                          *)
(***************************************************************************)
WavPaths == {"ref48k_1s.wav", "deg48k_1s.wav", "deg16k_1s.wav", "deg48k_2s5.wav"}

\* MiscAudio::LoadAsMono: the decoded content of the file.
LoadAsMono(path) ==
  CASE path = "ref48k_1s.wav" -> Decoded(k48kSampleRate, 2)
    [] path = "deg48k_1s.wav" -> Decoded(k48kSampleRate, 2)
    [] path = "deg16k_1s.wav" -> Decoded(k16kSampleRate, 2)
    [] OTHER -> Decoded(k48kSampleRate, 5)

ModelPaths == {"libsvm_nu_svr_model.txt", "missing_model.txt", ""}

\* Whether the regression model at this path can be loaded.
ModelLoads(path) == path = "libsvm_nu_svr_model.txt"

VARIABLES
  \* The members of VisqolManager.
  is_initialized_,
  use_speech_mode_,
  use_unscaled_speech_mos_mapping_,
  patch_creator_,
  patch_selector_,
  spectrogram_builder_,
  sim_to_qual_,
  \* The caller: the call that returned last and what it observed of it.
  op,           \* which entry point returned last
  args,         \* its arguments, as passed
  ret,          \* what it returned: a Status (Init) or a StatusOr (Run)
  caller_deg,   \* the caller's degraded signal when Run(signal, signal) returned
  alignment,    \* what GloballyAlign returned to the call, if it was reached
  similarity,   \* what CalculateSimilarity returned to the call, if it was reached
  trace,        \* the steps the call performed, in order
  log,          \* what the call logged, in order
  \* Where the caller is: "idle" before a call, "returned" with what the last
  \* call returned, "loop" and "return" inside the batch call.
  pc,
  \* The batch call in progress, Run(vector<ReferenceDegradedPathPair>).
  signals_to_compare,
  next_pair,
  sim_results,
  attempts,     \* per pair attempted: its index and what Run(path, path) returned
  \* History of the manager.
  last_init,    \* the arguments and status of the most recent Init call
  init_succeeded,  \* some Init call has returned OK
  calc_args,    \* the components handed to the most recent CalculateSimilarity
  \* Callers running Run(signal, signal) on the manager at the same time: for
  \* each, the step it is about to take and the locals of its call.
  threads

manager == <<is_initialized_, use_speech_mode_, use_unscaled_speech_mos_mapping_,
             patch_creator_, patch_selector_, spectrogram_builder_, sim_to_qual_>>

caller == <<op, args, ret, caller_deg, alignment, similarity, trace, log>>

batch == <<signals_to_compare, next_pair, sim_results, attempts>>

history == <<last_init, init_succeeded, calc_args>>

vars == <<manager, caller, pc, batch, history, threads>>

\* A unique_ptr that holds nothing.
NullPtr == [kind |-> "null"]

(***************************************************************************)
(* Init and its helpers (visqol_manager.cc:55-107).                        *)
(***************************************************************************)
\* A slip: the test of the mode is inverted.
InitPatchCreator_Inverted(speech_mode) ==
  IF ~speech_mode
    THEN [kind |-> "VadPatchCreator", patch_size |-> kPatchSizeSpeech]
    ELSE [kind |-> "ImagePatchCreator", patch_size |-> kPatchSize]

\* InitPatchCreator: the patch creator for the mode.
InitPatchCreator(speech_mode) ==
  IF speech_mode
    THEN [kind |-> "VadPatchCreator", patch_size |-> kPatchSizeSpeech]
    ELSE [kind |-> "ImagePatchCreator", patch_size |-> kPatchSize]

\* InitPatchSelector: the selector comparing patches with the Neurogram measure.
InitPatchSelector ==
  [kind |-> "ComparisonPatchesSelector",
   sim_comparator |-> "NeurogramSimiliarityIndexMeasure"]

\* A slip: the speech filterbank is built with the number of bands of full audio.
InitSpectrogramBuilder_AudioBands(speech_mode) ==
  [kind |-> "GammatoneSpectrogramBuilder",
   filter_bank |-> [num_bands |-> kNumBandsAudio, min_freq |-> kMinimumFreq],
   use_speech_mode |-> speech_mode]

\* InitSpectrogramBuilder: the gammatone builder for the mode.
InitSpectrogramBuilder(speech_mode) ==
  IF speech_mode
    THEN [kind |-> "GammatoneSpectrogramBuilder",
          filter_bank |-> [num_bands |-> kNumBandsSpeech, min_freq |-> kMinimumFreq],
          use_speech_mode |-> TRUE]
    ELSE [kind |-> "GammatoneSpectrogramBuilder",
          filter_bank |-> [num_bands |-> kNumBandsAudio, min_freq |-> kMinimumFreq],
          use_speech_mode |-> FALSE]

\* A slip: the test of the mode is inverted.
NewSimilarityToQualityMapper_Inverted(sim_to_quality_mapper_model, speech_mode, unscaled) ==
  IF ~speech_mode
    THEN [kind |-> "SpeechSimilarityToQualityMapper", scale_to_max_mos |-> ~unscaled]
    ELSE [kind |-> "SvrSimilarityToQualityMapper",
          model_path |-> sim_to_quality_mapper_model]

\* The mapper InitSimilarityToQualityMapper installs (lines 99-105).
NewSimilarityToQualityMapper(sim_to_quality_mapper_model, speech_mode, unscaled) ==
  IF speech_mode
    THEN [kind |-> "SpeechSimilarityToQualityMapper", scale_to_max_mos |-> ~unscaled]
    ELSE [kind |-> "SvrSimilarityToQualityMapper",
          model_path |-> sim_to_quality_mapper_model]

\* sim_to_qual_->Init(): the speech mapper has nothing to load; the regression
\* mapper loads its model file and fails, with the code given, if it cannot.
MapperInit(mapper, failure_code) ==
  IF mapper.kind = "SpeechSimilarityToQualityMapper"
    THEN OkStatus
    ELSE IF ModelLoads(mapper.model_path)
           THEN OkStatus
           ELSE Status(failure_code, "Failed to load the SVR model file")

\* A slip: the flag is set whatever the mapper's status.
InitializedAfterInit_Always(status) == TRUE

\* A slip: is_initialized_ is assigned from the status of the mapper's Init.
InitializedAfterInit_FromStatus(status) == status.error_code = "OK"

\* The value of is_initialized_ after Init, given the mapper's status (64-68).
InitializedAfterInit(status) ==
  IF status.error_code = "OK" THEN TRUE ELSE is_initialized_

\* VisqolManager::Init.
ManagerInit(sim_to_quality_mapper_model, use_speech_mode, use_unscaled_speech, code) ==
  LET mapper == NewSimilarityToQualityMapper(sim_to_quality_mapper_model,
                                             use_speech_mode, use_unscaled_speech)
      status == MapperInit(mapper, code)
  IN  /\ pc = "idle"
      /\ pc' = "returned"
      /\ use_speech_mode_' = use_speech_mode
      /\ use_unscaled_speech_mos_mapping_' = use_unscaled_speech
      /\ patch_creator_' = InitPatchCreator(use_speech_mode)
      /\ patch_selector_' = InitPatchSelector
      /\ spectrogram_builder_' = InitSpectrogramBuilder(use_speech_mode)
      /\ sim_to_qual_' = mapper
      /\ is_initialized_' = InitializedAfterInit(status)
      /\ op' = "Init"
      /\ args' = <<sim_to_quality_mapper_model, use_speech_mode, use_unscaled_speech>>
      /\ ret' = status
      /\ caller_deg' = <<>>
      /\ alignment' = <<>>
      /\ similarity' = <<>>
      /\ trace' = <<"InitPatchCreator", "InitPatchSelector", "InitSpectrogramBuilder",
                    "InitSimilarityToQualityMapper">>
      /\ log' = IF status.error_code = "OK" THEN <<>> ELSE <<"ERROR: Init">>
      /\ last_init' = <<[use_speech_mode |-> use_speech_mode, status |-> status]>>
      /\ init_succeeded' = (init_succeeded \/ status.error_code = "OK")
      /\ UNCHANGED <<batch, calc_args, threads>>

(***************************************************************************)
(* The steps of a comparison (visqol_manager.cc:175-252).                  *)
(***************************************************************************)
\* VisqolManager::ErrorIfNotInitialized.
ErrorIfNotInitialized ==
  IF is_initialized_ = FALSE
    THEN Status("ABORTED", "VisqolManager must be initialized before use.")
    ELSE OkStatus

\* The warning ValidateInputAudio logs for the durations, if any (218-224).
DurationWarning(ref_signal, deg_signal) ==
  IF Abs(GetDuration(ref_signal) - GetDuration(deg_signal))
       > kDurationMismatchTolerance * MsPerSecond
    THEN <<"WARNING: Mismatch in duration">>
    ELSE <<>>

\* A slip: the speech-mode test is >= instead of >.
SampleRateWarning_AtLeast16k(ref_signal) ==
  IF use_speech_mode_
    THEN IF ref_signal.sample_rate >= k16kSampleRate
           THEN <<"WARNING: sample rate is above 16kHz">>
           ELSE <<>>
    ELSE IF ref_signal.sample_rate # k48kSampleRate
           THEN <<"WARNING: not the expected sample rate of 48kHz">>
           ELSE <<>>

\* The warning ValidateInputAudio logs for the sample rate, if any (235-249).
SampleRateWarning(ref_signal) ==
  IF use_speech_mode_
    THEN IF ref_signal.sample_rate > k16kSampleRate
           THEN <<"WARNING: sample rate is above 16kHz">>
           ELSE <<>>
    ELSE IF ref_signal.sample_rate # k48kSampleRate
           THEN <<"WARNING: not the expected sample rate of 48kHz">>
           ELSE <<>>

\* A slip: different sample rates are only warned about.
ValidateInputAudio_WarnOnly(ref_signal, deg_signal) ==
  [status |-> OkStatus,
   log |-> DurationWarning(ref_signal, deg_signal) \o SampleRateWarning(ref_signal)]

\* A slip: a duration mismatch is an error.
ValidateInputAudio_DurationFatal(ref_signal, deg_signal) ==
  IF ref_signal.sample_rate # deg_signal.sample_rate
       \/ DurationWarning(ref_signal, deg_signal) # <<>>
    THEN [status |-> Status("INVALID_ARGUMENT", "Input audio signals differ"),
          log |-> DurationWarning(ref_signal, deg_signal)]
    ELSE [status |-> OkStatus,
          log |-> DurationWarning(ref_signal, deg_signal) \o SampleRateWarning(ref_signal)]

\* VisqolManager::ValidateInputAudio: the status it returns and what it logs.
ValidateInputAudio(ref_signal, deg_signal) ==
  IF ref_signal.sample_rate # deg_signal.sample_rate
    THEN [status |-> Status("INVALID_ARGUMENT",
                            "Input audio signals have different sample rates!"),
          log |-> DurationWarning(ref_signal, deg_signal)]
    ELSE [status |-> OkStatus,
          log |-> DurationWarning(ref_signal, deg_signal) \o SampleRateWarning(ref_signal)]

\* Alignment::GloballyAlign: the degraded signal shifted by the lag found
\* (unmodified when the lag is 0), and the lag.
GloballyAlign(ref_signal, deg_signal, lag) ==
  IF lag = 0
    THEN <<deg_signal, 0>>
    ELSE <<AudioSignal(deg_signal.sample_rate, deg_signal.num_samples - lag,
                       deg_signal.offset + lag), lag>>

\* AnalysisWindow{sample_rate, overlap}.
AnalysisWindow(sample_rate, overlap) == [sample_rate |-> sample_rate, overlap |-> overlap]

\* The SimilarityResults Visqol::CalculateSimilarity may produce: two patch
\* matches, or none.
PatchSimilarityResults ==
  << [similarity |-> 9, freq_band_means |-> <<9, 8>>,
      ref_patch_start_time |-> 0, ref_patch_end_time |-> 3,
      deg_patch_start_time |-> 1, deg_patch_end_time |-> 4],
     [similarity |-> 7, freq_band_means |-> <<6, 8>>,
      ref_patch_start_time |-> 3, ref_patch_end_time |-> 6,
      deg_patch_start_time |-> 3, deg_patch_end_time |-> 6] >>

SimilarityResults ==
  { [moslqo |-> 4, vnsim |-> 8, fvnsim |-> <<7, 9>>, center_freq_bands |-> <<50, 120>>,
     debug_info |-> [patch_sims |-> PatchSimilarityResults]],
    [moslqo |-> 1, vnsim |-> 0, fvnsim |-> <<>>, center_freq_bands |-> <<>>,
     debug_info |-> [patch_sims |-> <<>>]] }

\* What Visqol::CalculateSimilarity returns: a SimilarityResult, or a failure of
\* any code.
SimilarityOutcomes ==
  {StatusOrValue(r) : r \in SimilarityResults}
    \cup {StatusOrError(Status(c, "CalculateSimilarity failed")) : c \in ErrorCodes}

\* A message as constructed: nothing set, nothing added.
EmptySimilarityResultMsg ==
  [has |-> {}, moslqo |-> 0, vnsim |-> 0, fvnsim |-> <<>>, center_freq_bands |-> <<>>,
   patch_sims |-> <<>>, reference_filepath |-> "", degraded_filepath |-> ""]

\* A protobuf setter: the field holds the value and counts as set.
SetField(msg, field, value) ==
  [[msg EXCEPT ![field] = value] EXCEPT !.has = msg.has \cup {field}]

\* add_<field>(v) for each v of values, in order (the loops of lines 181-189, 198).
RECURSIVE AddEach(_, _, _)
AddEach(msg, field, values) ==
  IF values = <<>>
    THEN msg
    ELSE AddEach([msg EXCEPT ![field] = Append(msg[field], Head(values))],
                 field, Tail(values))

\* A slip: the degraded start time is copied from the reference start time.
PatchMsg_RefStartTwice(patch) ==
  LET m0 == [similarity |-> 0, ref_patch_start_time |-> 0, ref_patch_end_time |-> 0,
             deg_patch_start_time |-> 0, deg_patch_end_time |-> 0,
             freq_band_means |-> <<>>]
      m1 == [m0 EXCEPT !.similarity = patch.similarity]
      m2 == [m1 EXCEPT !.ref_patch_start_time = patch.ref_patch_start_time]
      m3 == [m2 EXCEPT !.ref_patch_end_time = patch.ref_patch_end_time]
      m4 == [m3 EXCEPT !.deg_patch_start_time = patch.ref_patch_start_time]
      m5 == [m4 EXCEPT !.deg_patch_end_time = patch.deg_patch_end_time]
  IN  AddEach(m5, "freq_band_means", patch.freq_band_means)

\* The patch message of one patch (lines 192-200).
PatchMsg(patch) ==
  LET m0 == [similarity |-> 0, ref_patch_start_time |-> 0, ref_patch_end_time |-> 0,
             deg_patch_start_time |-> 0, deg_patch_end_time |-> 0,
             freq_band_means |-> <<>>]
      m1 == [m0 EXCEPT !.similarity = patch.similarity]
      m2 == [m1 EXCEPT !.ref_patch_start_time = patch.ref_patch_start_time]
      m3 == [m2 EXCEPT !.ref_patch_end_time = patch.ref_patch_end_time]
      m4 == [m3 EXCEPT !.deg_patch_start_time = patch.deg_patch_start_time]
      m5 == [m4 EXCEPT !.deg_patch_end_time = patch.deg_patch_end_time]
  IN  AddEach(m5, "freq_band_means", patch.freq_band_means)

\* add_patch_sims() and its setters for each patch, in order (lines 191-201).
RECURSIVE AddPatchSims(_, _)
AddPatchSims(msg, patch_sims) ==
  IF patch_sims = <<>>
    THEN msg
    ELSE AddPatchSims([msg EXCEPT !.patch_sims = Append(@, PatchMsg(Head(patch_sims)))],
                      Tail(patch_sims))

\* VisqolManager::PopulateSimResultMsg.
PopulateSimResultMsg(sim_result) ==
  LET m1 == SetField(EmptySimilarityResultMsg, "moslqo", sim_result.moslqo)
      m2 == SetField(m1, "vnsim", sim_result.vnsim)
      m3 == AddEach(m2, "fvnsim", sim_result.fvnsim)
      m4 == AddEach(m3, "center_freq_bands", sim_result.center_freq_bands)
  IN  AddPatchSims(m4, sim_result.debug_info.patch_sims)

(***************************************************************************)
(* The single-pair comparisons (visqol_manager.cc:132-173).  Each is given *)
(* as what the call returns and leaves behind: the StatusOr returned, the  *)
(* degraded signal object it was handed, the steps performed, the lines    *)
(* logged, and the components handed to CalculateSimilarity, if reached.   *)
(***************************************************************************)
\* A slip: the aligned signal is kept in a local; the caller's object is not
\* assigned.
AssignAligned_Local(deg_signal, alignment_result) == deg_signal

\* deg_signal = std::get<0>(alignment_result) (line 161): the object the caller
\* handed in by reference now holds the aligned signal.
AssignAligned(deg_signal, alignment_result) == alignment_result[1]

\* The components Run hands to CalculateSimilarity (lines 169-171).
Components ==
  [spectrogram_builder |-> spectrogram_builder_, patch_creator |-> patch_creator_,
   patch_selector |-> patch_selector_, sim_to_qual |-> sim_to_qual_]

\* Run(const AudioSignal& ref_signal, AudioSignal& deg_signal), where global
\* alignment finds lag and CalculateSimilarity returns outcome.
RunSignals(ref_signal, deg_signal, lag, outcome) ==
  LET init_status == ErrorIfNotInitialized
      validation == ValidateInputAudio(ref_signal, deg_signal)
      alignment_result == GloballyAlign(ref_signal, deg_signal, lag)
      aligned == AssignAligned(deg_signal, alignment_result)
      window == AnalysisWindow(ref_signal.sample_rate, kOverlap)
      calc == Components
  IN  IF init_status.error_code # "OK"
        THEN [return |-> StatusOrError(init_status), deg_signal |-> deg_signal,
              alignment |-> <<>>, similarity |-> <<>>,
              trace |-> <<"ErrorIfNotInitialized">>, log |-> <<>>, calc |-> <<>>]
      ELSE IF validation.status.error_code # "OK"
        THEN [return |-> StatusOrError(validation.status), deg_signal |-> deg_signal,
              alignment |-> <<>>, similarity |-> <<>>,
              trace |-> <<"ErrorIfNotInitialized", "ValidateInputAudio">>,
              log |-> validation.log, calc |-> <<>>]
      ELSE IF ~IsOk(outcome)
        THEN [return |-> StatusOrError(outcome.status), deg_signal |-> aligned,
              alignment |-> <<alignment_result>>, similarity |-> <<outcome>>,
              trace |-> <<"ErrorIfNotInitialized", "ValidateInputAudio",
                          "GloballyAlign", "CalculateSimilarity">>,
              log |-> validation.log, calc |-> <<calc>>]
      ELSE [return |-> StatusOrValue(PopulateSimResultMsg(outcome.value[1])),
            deg_signal |-> aligned, alignment |-> <<alignment_result>>,
            similarity |-> <<outcome>>,
            trace |-> <<"ErrorIfNotInitialized", "ValidateInputAudio",
                        "GloballyAlign", "CalculateSimilarity", "PopulateSimResultMsg">>,
            log |-> validation.log, calc |-> <<calc>>]

\* A slip: the files are loaded before the initialization is checked.
RunPaths_LoadsFirst(ref_signal_path, deg_signal_path, lag, outcome) ==
  LET init_status == ErrorIfNotInitialized
      ref_signal == LoadAsMono(ref_signal_path)
      deg_signal == LoadAsMono(deg_signal_path)
      inner == RunSignals(ref_signal, deg_signal, lag, outcome)
      loaded == <<"LoadAsMono", "LoadAsMono", "ErrorIfNotInitialized">>
  IN  IF init_status.error_code # "OK"
        THEN [return |-> StatusOrError(init_status), alignment |-> <<>>,
              similarity |-> <<>>,
              trace |-> loaded, log |-> <<>>, calc |-> <<>>]
      ELSE IF ~IsOk(inner.return)
        THEN [return |-> StatusOrError(inner.return.status), alignment |-> inner.alignment,
              similarity |-> inner.similarity,
              trace |-> loaded \o inner.trace, log |-> inner.log, calc |-> inner.calc]
      ELSE [return |-> StatusOrValue(
                         SetField(SetField(inner.return.value[1], "reference_filepath",
                                           ref_signal_path),
                                  "degraded_filepath", deg_signal_path)),
            alignment |-> inner.alignment, similarity |-> inner.similarity,
            trace |-> loaded \o inner.trace, log |-> inner.log, calc |-> inner.calc]

\* Run(const FilePath& ref_signal_path, const FilePath& deg_signal_path).
RunPaths(ref_signal_path, deg_signal_path, lag, outcome) ==
  LET init_status == ErrorIfNotInitialized
      ref_signal == LoadAsMono(ref_signal_path)
      deg_signal == LoadAsMono(deg_signal_path)
      inner == RunSignals(ref_signal, deg_signal, lag, outcome)
      loaded == <<"ErrorIfNotInitialized", "LoadAsMono", "LoadAsMono">>
  IN  IF init_status.error_code # "OK"
        THEN [return |-> StatusOrError(init_status), alignment |-> <<>>,
              similarity |-> <<>>,
              trace |-> <<"ErrorIfNotInitialized">>, log |-> <<>>, calc |-> <<>>]
      ELSE IF ~IsOk(inner.return)
        THEN [return |-> StatusOrError(inner.return.status), alignment |-> inner.alignment,
              similarity |-> inner.similarity,
              trace |-> loaded \o inner.trace, log |-> inner.log, calc |-> inner.calc]
      ELSE [return |-> StatusOrValue(
                         SetField(SetField(inner.return.value[1], "reference_filepath",
                                           ref_signal_path),
                                  "degraded_filepath", deg_signal_path)),
            alignment |-> inner.alignment, similarity |-> inner.similarity,
            trace |-> loaded \o inner.trace, log |-> inner.log, calc |-> inner.calc]

\* The lags global alignment may find.
Lags == (-MaxLag)..MaxLag

\* A slip: a comparison that fails marks the manager as not initialized.
RunSignalsCall_MarksUninitialized(ref_signal, deg_signal, lag, outcome) ==
  LET r == RunSignals(ref_signal, deg_signal, lag, outcome)
  IN  /\ pc = "idle"
      /\ pc' = "returned"
      /\ op' = "RunSignals"
      /\ args' = <<ref_signal, deg_signal>>
      /\ ret' = r.return
      /\ caller_deg' = <<r.deg_signal>>
      /\ alignment' = r.alignment
      /\ similarity' = r.similarity
      /\ trace' = r.trace
      /\ log' = r.log
      /\ calc_args' = IF r.calc = <<>> THEN calc_args ELSE r.calc
      /\ is_initialized_' = (is_initialized_ /\ IsOk(r.return))
      /\ UNCHANGED <<use_speech_mode_, use_unscaled_speech_mos_mapping_, patch_creator_,
                     patch_selector_, spectrogram_builder_, sim_to_qual_, batch,
                     last_init, init_succeeded, threads>>

\* A call of Run(ref_signal, deg_signal) by the caller.
RunSignalsCall(ref_signal, deg_signal, lag, outcome) ==
  LET r == RunSignals(ref_signal, deg_signal, lag, outcome)
  IN  /\ pc = "idle"
      /\ pc' = "returned"
      /\ op' = "RunSignals"
      /\ args' = <<ref_signal, deg_signal>>
      /\ ret' = r.return
      /\ caller_deg' = <<r.deg_signal>>
      /\ alignment' = r.alignment
      /\ similarity' = r.similarity
      /\ trace' = r.trace
      /\ log' = r.log
      /\ calc_args' = IF r.calc = <<>> THEN calc_args ELSE r.calc
      /\ UNCHANGED <<manager, batch, last_init, init_succeeded, threads>>

\* A call of Run(ref_signal_path, deg_signal_path) by the caller.
RunPathsCall(ref_signal_path, deg_signal_path, lag, outcome) ==
  LET r == RunPaths(ref_signal_path, deg_signal_path, lag, outcome)
  IN  /\ pc = "idle"
      /\ pc' = "returned"
      /\ op' = "RunPaths"
      /\ args' = <<ref_signal_path, deg_signal_path>>
      /\ ret' = r.return
      /\ caller_deg' = <<>>
      /\ alignment' = r.alignment
      /\ similarity' = r.similarity
      /\ trace' = r.trace
      /\ log' = r.log
      /\ calc_args' = IF r.calc = <<>> THEN calc_args ELSE r.calc
      /\ UNCHANGED <<manager, batch, last_init, init_succeeded, threads>>

(***************************************************************************)
(* The batch comparison, Run(vector<ReferenceDegradedPathPair>)            *)
(* (visqol_manager.cc:109-130): the call, one step per iteration of its    *)
(* loop, and the return.  The caller is single-threaded: nothing else runs *)
(* on the manager while the batch is in progress.                          *)
(***************************************************************************)
ReferenceDegradedPathPair(ref, deg) == [reference |-> ref, degraded |-> deg]

\* The pairs batches are made of: a matching pair and a pair of different
\* sample rates.
BatchPairs ==
  {ReferenceDegradedPathPair("ref48k_1s.wav", "deg48k_1s.wav"),
   ReferenceDegradedPathPair("ref48k_1s.wav", "deg16k_1s.wav")}

Batches == UNION {[1..n -> BatchPairs] : n \in 0..MaxBatch}

\* The call: sim_results is constructed empty (line 111).
RunBatchCall(pairs) ==
  /\ pc = "idle"
  /\ pc' = "loop"
  /\ signals_to_compare' = pairs
  /\ next_pair' = 1
  /\ sim_results' = <<>>
  /\ attempts' = <<>>
  /\ op' = "RunBatch"
  /\ args' = <<pairs>>
  /\ ret' = <<>>
  /\ caller_deg' = <<>>
  /\ alignment' = <<>>
  /\ similarity' = <<>>
  /\ trace' = <<>>
  /\ log' = <<>>
  /\ UNCHANGED <<manager, history, threads>>

\* A slip: the message is saved whether or not the pair succeeded.
SaveValue_Always(results, status_or) ==
  Append(results, IF IsOk(status_or) THEN status_or.value[1] ELSE EmptySimilarityResultMsg)

\* sim_results after the pair's Run returned status_or (lines 117-119).
SaveValue(results, status_or) ==
  IF IsOk(status_or) THEN Append(results, status_or.value[1]) ELSE results

\* A slip: the break is missing.
QuitProcessing_Never(status_or) == FALSE

\* A slip: the loop is left on any failure.
QuitProcessing_AnyError(status_or) == ~IsOk(status_or)

\* Whether the loop is left after the pair's Run returned status_or (117-126).
QuitProcessing(status_or) ==
  ~IsOk(status_or) /\ status_or.status.error_code = "ABORTED"

\* A slip: the loop does not advance past a pair that failed.
RunBatchIteration_RetriesFailed(lag, outcome) ==
  /\ pc = "loop"
  /\ next_pair <= Len(signals_to_compare)
  /\ LET signal_pair == signals_to_compare[next_pair]
         r == RunPaths(signal_pair.reference, signal_pair.degraded, lag, outcome)
         status_or == r.return
     IN  /\ sim_results' = SaveValue(sim_results, status_or)
         /\ attempts' = Append(attempts, [index |-> next_pair, status_or |-> status_or])
         /\ similarity' = r.similarity
         /\ trace' = trace \o r.trace
         /\ log' = log \o r.log \o
                     (IF IsOk(status_or) THEN <<>> ELSE <<"ERROR: Error executing ViSQOL">>)
         /\ calc_args' = IF r.calc = <<>> THEN calc_args ELSE r.calc
         /\ IF QuitProcessing(status_or)
              THEN pc' = "return" /\ next_pair' = next_pair
              ELSE pc' = "loop" /\ next_pair' = IF IsOk(status_or) THEN next_pair + 1
                                                                   ELSE next_pair
  /\ UNCHANGED <<manager, op, args, ret, caller_deg, alignment, signals_to_compare,
                 last_init, init_succeeded, threads>>

\* One iteration of the loop (lines 113-128).
RunBatchIteration(lag, outcome) ==
  /\ pc = "loop"
  /\ next_pair <= Len(signals_to_compare)
  /\ LET signal_pair == signals_to_compare[next_pair]
         r == RunPaths(signal_pair.reference, signal_pair.degraded, lag, outcome)
         status_or == r.return
     IN  /\ sim_results' = SaveValue(sim_results, status_or)
         /\ attempts' = Append(attempts, [index |-> next_pair, status_or |-> status_or])
         /\ similarity' = r.similarity
         /\ trace' = trace \o r.trace
         /\ log' = log \o r.log \o
                     (IF IsOk(status_or) THEN <<>> ELSE <<"ERROR: Error executing ViSQOL">>)
         /\ calc_args' = IF r.calc = <<>> THEN calc_args ELSE r.calc
         /\ IF QuitProcessing(status_or)
              THEN pc' = "return" /\ next_pair' = next_pair
              ELSE pc' = "loop" /\ next_pair' = next_pair + 1
  /\ UNCHANGED <<manager, op, args, ret, caller_deg, alignment, signals_to_compare,
                 last_init, init_succeeded, threads>>

\* The loop is over, by exhaustion or by break: return sim_results (line 129).
RunBatchReturn ==
  /\ \/ pc = "return"
     \/ pc = "loop" /\ next_pair > Len(signals_to_compare)
  /\ pc' = "returned"
  /\ ret' = sim_results
  /\ UNCHANGED <<manager, op, args, caller_deg, alignment, similarity, trace, log,
                 batch, history, threads>>

\* The caller is done with what the call returned and is ready to call again.
CallerContinues ==
  /\ pc = "returned"
  /\ pc' = "idle"
  /\ op' = "none"
  /\ args' = <<>>
  /\ ret' = <<>>
  /\ caller_deg' = <<>>
  /\ alignment' = <<>>
  /\ similarity' = <<>>
  /\ trace' = <<>>
  /\ log' = <<>>
  /\ signals_to_compare' = <<>>
  /\ next_pair' = 1
  /\ sim_results' = <<>>
  /\ attempts' = <<>>
  /\ UNCHANGED <<manager, history, threads>>

(***************************************************************************)
(* Concurrent callers of Run(const AudioSignal&, AudioSignal&)             *)
(* (visqol_manager.cc:151-173).  Each caller owns its two signals; the     *)
(* manager is shared.  A call is taken one statement at a time, so that    *)
(* the statements of different calls interleave; each statement reads the  *)
(* members it names when it runs.                                          *)
(***************************************************************************)
Threads == {"t1", "t2"}

\* The pairs the concurrent callers compare: equal rates and durations,
\* different rates, and durations 1.5 s apart.
ThreadPairs ==
  {<<LoadAsMono("ref48k_1s.wav"), LoadAsMono(p)>> :
     p \in {"deg48k_1s.wav", "deg16k_1s.wav", "deg48k_2s5.wav"}}

\* A caller that is not inside a call.
IdleThread ==
  [pc |-> "idle", args |-> <<>>, deg_signal |-> <<>>, alignment |-> <<>>,
   similarity |-> <<>>, calc |-> <<>>, log |-> <<>>, ret |-> <<>>]

\* Thread t returns from its call with status_or.
Returning(thread, status_or) == [thread EXCEPT !.pc = "done", !.ret = <<status_or>>]

\* Thread t calls Run(ref_signal, deg_signal) with signals of its own.
ThreadRunSignals(t, ref_signal, deg_signal) ==
  /\ pc = "idle"
  /\ threads[t].pc = "idle"
  /\ threads' = [threads EXCEPT ![t] =
                   [IdleThread EXCEPT !.pc = "ErrorIfNotInitialized",
                                      !.args = <<ref_signal, deg_signal>>,
                                      !.deg_signal = <<deg_signal>>]]
  /\ UNCHANGED <<manager, caller, pc, batch, history>>

\* RETURN_IF_ERROR(ErrorIfNotInitialized()) (line 155): reads is_initialized_.
ThreadErrorIfNotInitialized(t) ==
  /\ threads[t].pc = "ErrorIfNotInitialized"
  /\ LET init_status == ErrorIfNotInitialized
     IN  threads' = [threads EXCEPT ![t] =
                       IF init_status.error_code # "OK"
                         THEN Returning(@, StatusOrError(init_status))
                         ELSE [@ EXCEPT !.pc = "ValidateInputAudio"]]
  /\ UNCHANGED <<manager, caller, pc, batch, history>>

\* A slip: validation stores the mode it derives from the reference sample
\* rate in the manager's flag.
ThreadValidateInputAudio_SetsMode(t) ==
  /\ threads[t].pc = "ValidateInputAudio"
  /\ LET validation == ValidateInputAudio(threads[t].args[1], threads[t].deg_signal[1])
     IN  threads' = [threads EXCEPT ![t] =
                       IF validation.status.error_code # "OK"
                         THEN Returning([@ EXCEPT !.log = validation.log],
                                        StatusOrError(validation.status))
                         ELSE [@ EXCEPT !.pc = "GloballyAlign", !.log = validation.log]]
  /\ use_speech_mode_' = (threads[t].args[1].sample_rate = k16kSampleRate)
  /\ UNCHANGED <<is_initialized_, use_unscaled_speech_mos_mapping_, patch_creator_,
                 patch_selector_, spectrogram_builder_, sim_to_qual_, caller, pc,
                 batch, history>>

\* RETURN_IF_ERROR(ValidateInputAudio(ref_signal, deg_signal)) (line 157):
\* reads use_speech_mode_.
ThreadValidateInputAudio(t) ==
  /\ threads[t].pc = "ValidateInputAudio"
  /\ LET validation == ValidateInputAudio(threads[t].args[1], threads[t].deg_signal[1])
     IN  threads' = [threads EXCEPT ![t] =
                       IF validation.status.error_code # "OK"
                         THEN Returning([@ EXCEPT !.log = validation.log],
                                        StatusOrError(validation.status))
                         ELSE [@ EXCEPT !.pc = "GloballyAlign", !.log = validation.log]]
  /\ UNCHANGED <<manager, caller, pc, batch, history>>

\* Global alignment and the assignment to the caller's degraded signal
\* (lines 159-161): reads no member.
ThreadGloballyAlign(t, lag) ==
  /\ threads[t].pc = "GloballyAlign"
  /\ LET deg_signal == threads[t].deg_signal[1]
         alignment_result == GloballyAlign(threads[t].args[1], deg_signal, lag)
     IN  threads' = [threads EXCEPT ![t] =
                       [@ EXCEPT !.pc = "CalculateSimilarity",
                                 !.alignment = <<alignment_result>>,
                                 !.deg_signal = <<AssignAligned(deg_signal, alignment_result)>>]]
  /\ UNCHANGED <<manager, caller, pc, batch, history>>

\* CalculateSimilarity and, when it succeeds, PopulateSimResultMsg (lines
\* 163-172): reads the four components.
ThreadCalculateSimilarity(t, outcome) ==
  /\ threads[t].pc = "CalculateSimilarity"
  /\ LET called == [threads[t] EXCEPT !.similarity = <<outcome>>, !.calc = <<Components>>]
     IN  threads' = [threads EXCEPT ![t] =
                       IF ~IsOk(outcome)
                         THEN Returning(called, StatusOrError(outcome.status))
                         ELSE Returning(called,
                                        StatusOrValue(PopulateSimResultMsg(outcome.value[1])))]
  /\ UNCHANGED <<manager, caller, pc, batch, history>>

\* Thread t is done with what its call returned.
ThreadContinues(t) ==
  /\ threads[t].pc = "done"
  /\ threads' = [threads EXCEPT ![t] = IdleThread]
  /\ UNCHANGED <<manager, caller, pc, batch, history>>

(***************************************************************************)
(* The specification.                                                      *)
(***************************************************************************)
\* A constructed manager: not initialized, no component installed.  The mode
\* flags are not read before Init sets them; they hold either value.
Init ==
  /\ is_initialized_ = FALSE
  /\ use_speech_mode_ \in BOOLEAN
  /\ use_unscaled_speech_mos_mapping_ \in BOOLEAN
  /\ patch_creator_ = NullPtr
  /\ patch_selector_ = NullPtr
  /\ spectrogram_builder_ = NullPtr
  /\ sim_to_qual_ = NullPtr
  /\ op = "none"
  /\ args = <<>>
  /\ ret = <<>>
  /\ caller_deg = <<>>
  /\ alignment = <<>>
  /\ similarity = <<>>
  /\ trace = <<>>
  /\ log = <<>>
  /\ pc = "idle"
  /\ signals_to_compare = <<>>
  /\ next_pair = 1
  /\ sim_results = <<>>
  /\ attempts = <<>>
  /\ last_init = <<>>
  /\ init_succeeded = FALSE
  /\ calc_args = <<>>
  /\ threads = [t \in Threads |-> IdleThread]

\* The code a failing mapper Init reports.
ModelLoadFailureCodes == {"INVALID_ARGUMENT"}

DoInit ==
  \E model \in ModelPaths, speech \in BOOLEAN, unscaled \in BOOLEAN,
     code \in ModelLoadFailureCodes :
    ManagerInit(model, speech, unscaled, code)

DoRunSignals ==
  \E ref \in Signals, deg \in Signals, lag \in Lags, outcome \in SimilarityOutcomes :
    RunSignalsCall(ref, deg, lag, outcome)

DoRunPaths ==
  \E ref \in WavPaths, deg \in WavPaths, lag \in Lags, outcome \in SimilarityOutcomes :
    RunPathsCall(ref, deg, lag, outcome)

DoRunBatchCall == \E pairs \in Batches : RunBatchCall(pairs)

DoRunBatchIteration ==
  \E lag \in Lags, outcome \in SimilarityOutcomes : RunBatchIteration(lag, outcome)

Next ==
  \/ DoInit
  \/ DoRunSignals
  \/ DoRunPaths
  \/ DoRunBatchCall
  \/ DoRunBatchIteration
  \/ RunBatchReturn
  \/ CallerContinues

Spec == Init /\ [][Next]_vars

\* An iteration of the batch loop.  What the batch call keeps of an iteration
\* does not depend on the lag global alignment finds (the aligned signal is a
\* local of Run(path, path)): one lag stands for all.
DoRunBatchIterationAnyLag ==
  \E outcome \in SimilarityOutcomes : RunBatchIteration(0, outcome)

\* The next statement of a batch call in progress.
BatchStep == DoRunBatchIterationAnyLag \/ RunBatchReturn

\* Batch calls between Init calls.
NextBatch ==
  \/ DoInit
  \/ DoRunBatchCall
  \/ DoRunBatchIterationAnyLag
  \/ RunBatchReturn
  \/ CallerContinues

\* The batch call, once made, runs on: its next statement is executed.
SpecFair == Init /\ [][NextBatch]_vars /\ WF_vars(BatchStep)

AllThreadsIdle == \A t \in Threads : threads[t].pc = "idle"

\* Init is called while no comparison is in progress.
DoInitAlone == AllThreadsIdle /\ DoInit

DoThreadRunSignals ==
  \E t \in Threads, pair \in ThreadPairs : ThreadRunSignals(t, pair[1], pair[2])

DoThreadErrorIfNotInitialized == \E t \in Threads : ThreadErrorIfNotInitialized(t)

DoThreadValidateInputAudio == \E t \in Threads : ThreadValidateInputAudio(t)

DoThreadGloballyAlign == \E t \in Threads, lag \in Lags : ThreadGloballyAlign(t, lag)

DoThreadCalculateSimilarity ==
  \E t \in Threads, outcome \in SimilarityOutcomes : ThreadCalculateSimilarity(t, outcome)

DoThreadContinues == \E t \in Threads : ThreadContinues(t)

\* Comparisons by several callers at the same time, between Init calls.
NextConcurrent ==
  \/ DoInitAlone
  \/ CallerContinues
  \/ DoThreadRunSignals
  \/ DoThreadErrorIfNotInitialized
  \/ DoThreadValidateInputAudio
  \/ DoThreadGloballyAlign
  \/ DoThreadCalculateSimilarity
  \/ DoThreadContinues

SpecConcurrent == Init /\ [][NextConcurrent]_vars

(***************************************************************************)
(* Properties.                                                             *)
(***************************************************************************)
Range(seq) == {seq[i] : i \in 1..Len(seq)}

\* A single-pair comparison has returned to the caller.
ComparisonReturned == pc = "returned" /\ op \in {"RunSignals", "RunPaths"}

\* The batch call has returned to the caller.
BatchReturned == pc = "returned" /\ op = "RunBatch"

\* The two signals of the single-pair comparison that returned.
RefOfCall == IF op = "RunSignals" THEN args[1] ELSE LoadAsMono(args[1])

DegOfCall == IF op = "RunSignals" THEN args[2] ELSE LoadAsMono(args[2])

NotInitializedStatus ==
  Status("ABORTED", "VisqolManager must be initialized before use.")

\* The values of the attempts that succeeded, in order.
RECURSIVE OkValues(_)
OkValues(as) ==
  IF as = <<>>
    THEN <<>>
    ELSE (IF IsOk(Head(as).status_or) THEN <<Head(as).status_or.value[1]>> ELSE <<>>)
           \o OkValues(Tail(as))

\* C1: while no Init call has succeeded, every single-pair comparison, by
\* paths or by signals, returns the NotInitialized status (code ABORTED) and no
\* result, whatever its two inputs.
C1_NotInitializedBeforeInit ==
  (ComparisonReturned /\ ~init_succeeded)
    => (ret.status = NotInitializedStatus /\ ret.value = <<>>)

\* A comparison of two valid signals of one sample rate returned after an Init
\* call that failed, no Init having succeeded.
C1_Witness ==
  /\ ComparisonReturned
  /\ ~init_succeeded
  /\ last_init # <<>>
  /\ RefOfCall.sample_rate = DegOfCall.sample_rate
  /\ ret.status.error_code = "ABORTED"

\* C2: after an Init call that returned a failure, whatever preceded it, every
\* comparison is rejected with NotInitialized until an Init succeeds.
C2_FailedInitRejects ==
  (ComparisonReturned /\ last_init # <<>> /\ last_init[1].status.error_code # "OK")
    => ret.status = NotInitializedStatus

\* C3: in a batch, a pair that fails with NotInitialized is the last pair
\* attempted, and the list returned holds exactly the results of the pairs that
\* succeeded before it, in input order.
C3_BatchStopsAtNotInitialized ==
  (op = "RunBatch" /\ pc # "idle")
    => /\ \A k \in 1..Len(attempts) : attempts[k].index = k
       /\ \A k \in 1..Len(attempts) :
            attempts[k].status_or.status = NotInitializedStatus
              => /\ k = Len(attempts)
                 /\ pc # "loop"
                 /\ sim_results = OkValues(SubSeq(attempts, 1, k - 1))
                 /\ pc = "returned" => ret = sim_results

\* A batch of several pairs returned after its first pair failed with
\* NotInitialized, the other pairs not attempted.
C3_Witness ==
  /\ BatchReturned
  /\ Len(signals_to_compare) >= 2
  /\ Len(attempts) = 1
  /\ attempts[1].status_or.status = NotInitializedStatus
  /\ ret = <<>>

\* The batch attempted each pair once, in input order.
AllAttemptedInOrder ==
  /\ Len(attempts) = Len(signals_to_compare)
  /\ \A k \in 1..Len(attempts) : attempts[k].index = k

C5_MismatchIsInvalidArgument ==
  (ComparisonReturned /\ RefOfCall.sample_rate # DegOfCall.sample_rate)
    => (ret.status.error_code = "INVALID_ARGUMENT" /\ ret.value = <<>>)

\* C5 as amended: a comparison of signals of different sample rates never
\* returns a result; on an initialized manager it returns INVALID_ARGUMENT, in
\* either mode and for any durations, and on a manager that is not initialized
\* it returns NotInitialized.
C5_MismatchNeverScores ==
  (ComparisonReturned /\ RefOfCall.sample_rate # DegOfCall.sample_rate)
    => /\ ret.value = <<>>
       /\ is_initialized_ => ret.status.error_code = "INVALID_ARGUMENT"
       /\ ~is_initialized_ => ret.status = NotInitializedStatus

\* A comparison of signals of different sample rates and of durations more than
\* the tolerance apart was rejected by an initialized manager.
C5_Witness ==
  /\ ComparisonReturned
  /\ is_initialized_
  /\ RefOfCall.sample_rate # DegOfCall.sample_rate
  /\ DurationWarning(RefOfCall, DegOfCall) # <<>>
  /\ ret.status.error_code = "INVALID_ARGUMENT"

\* C6 as stated: when Run(ref_signal, deg_signal) returns, with a result or a
\* failure, the caller's degraded signal is what it was before the call.
C6_CallerSignalUntouched ==
  (pc = "returned" /\ op = "RunSignals") => caller_deg = <<args[2]>>

\* C6 as amended: the caller's degraded signal is what it was before the call
\* exactly when the call fails before alignment (NotInitialized, or the
\* validation's InvalidArgument); once validation has passed, the caller's
\* object holds the globally aligned signal, with a result or a failure, and
\* differs from the signal handed in whenever alignment found a lag.
C6_CallerSignalHoldsAligned ==
  (pc = "returned" /\ op = "RunSignals")
    => IF "GloballyAlign" \in Range(trace)
         THEN /\ alignment # <<>>
              /\ caller_deg = <<alignment[1][1]>>
              /\ caller_deg[1].sample_rate = args[2].sample_rate
              /\ alignment[1][2] # 0 => caller_deg # <<args[2]>>
         ELSE /\ caller_deg = <<args[2]>>
              /\ ret.status.error_code \in {"ABORTED", "INVALID_ARGUMENT"}

\* A comparison returned a failure of CalculateSimilarity and left the caller's
\* degraded signal shifted.
C6_Witness ==
  /\ pc = "returned"
  /\ op = "RunSignals"
  /\ "CalculateSimilarity" \in Range(trace)
  /\ ~IsOk(ret)
  /\ alignment # <<>>
  /\ alignment[1][2] # 0
  /\ caller_deg # <<args[2]>>

\* A step of a comparison call: a single-pair call, or the call, an iteration
\* or the return of a batch.
ComparisonStep ==
  /\ pc' # "idle"
  /\ op' \in {"RunSignals", "RunPaths", "RunBatch"}

\* C7: no step of a comparison call, single-pair or batch, successful or
\* failed, changes the initialized flag, the speech-mode and unscaled-mapping
\* flags or an installed component.
C7_ComparisonKeepsManager == [][ComparisonStep => UNCHANGED manager]_vars

\* A comparison failed in CalculateSimilarity on an initialized manager.
C7_Witness ==
  /\ ComparisonReturned
  /\ "CalculateSimilarity" \in Range(trace)
  /\ ~IsOk(ret)
  /\ is_initialized_

VariantIs(components, speech_mode) ==
  /\ components.patch_creator.kind =
       (IF speech_mode THEN "VadPatchCreator" ELSE "ImagePatchCreator")
  /\ components.spectrogram_builder.use_speech_mode = speech_mode
  /\ components.sim_to_qual.kind =
       (IF speech_mode THEN "SpeechSimilarityToQualityMapper"
                       ELSE "SvrSimilarityToQualityMapper")

WholeResult(msg) ==
  /\ {"moslqo", "vnsim"} \subseteq msg.has
  /\ \E r \in SimilarityResults :
       /\ msg.moslqo = r.moslqo
       /\ msg.vnsim = r.vnsim
       /\ msg.fvnsim = r.fvnsim
       /\ msg.center_freq_bands = r.center_freq_bands
       /\ Len(msg.patch_sims) = Len(r.debug_info.patch_sims)

\* The message holds both file paths.
HasPaths(msg, ref_path, deg_path) ==
  /\ {"reference_filepath", "degraded_filepath"} \subseteq msg.has
  /\ msg.reference_filepath = ref_path
  /\ msg.degraded_filepath = deg_path

\* C9: a single-pair comparison returns either a failure and no result, or a
\* whole result (with both file paths, for the call by paths); and every entry
\* of a batch's result list is the whole result, with its file paths, of a pair
\* that succeeded.
C9_NoPartialResult ==
  /\ ComparisonReturned
       => \/ ~IsOk(ret) /\ ret.value = <<>>
          \/ /\ IsOk(ret)
             /\ Len(ret.value) = 1
             /\ WholeResult(ret.value[1])
             /\ op = "RunPaths" => HasPaths(ret.value[1], args[1], args[2])
  /\ (op = "RunBatch" /\ pc # "idle")
       => /\ Len(sim_results) <= Len(attempts)
          /\ \A i \in 1..Len(sim_results) :
               /\ WholeResult(sim_results[i])
               /\ \E k \in 1..Len(attempts) :
                    /\ IsOk(attempts[k].status_or)
                    /\ HasPaths(sim_results[i], signals_to_compare[k].reference,
                                signals_to_compare[k].degraded)

\* A batch returned one result after a pair that failed in CalculateSimilarity.
C9_Witness ==
  /\ BatchReturned
  /\ Len(attempts) >= 2
  /\ attempts[1].status_or.status.error_code = "INTERNAL"
  /\ Len(ret) = 1
  /\ Len(ret[1].patch_sims) = 2

\* The durations of the two signals differ by more than the tolerance.
DurationsMismatch(ref_signal, deg_signal) ==
  Abs(GetDuration(ref_signal) - GetDuration(deg_signal))
    > kDurationMismatchTolerance * MsPerSecond

\* C10: validation succeeds exactly when the two sample rates are equal,
\* whatever the durations and the mode; it logs the duration warning exactly
\* when the durations differ by more than 1.0; and a comparison whose sample
\* rates are equal goes on to alignment and the similarity calculation whatever
\* the durations.
C10_DurationMismatchNotFatal ==
  (ComparisonReturned /\ "ValidateInputAudio" \in Range(trace))
    => /\ ("GloballyAlign" \in Range(trace))
            <=> (RefOfCall.sample_rate = DegOfCall.sample_rate)
       /\ (ValidateInputAudio(RefOfCall, DegOfCall).status.error_code = "OK")
            <=> (RefOfCall.sample_rate = DegOfCall.sample_rate)
       /\ ("WARNING: Mismatch in duration" \in Range(log))
            <=> DurationsMismatch(RefOfCall, DegOfCall)
       /\ (RefOfCall.sample_rate = DegOfCall.sample_rate)
            => {"GloballyAlign", "CalculateSimilarity"} \subseteq Range(trace)

\* A comparison of signals 1.5 s apart in duration logged the warning and
\* returned a result.
C10_Witness ==
  /\ ComparisonReturned
  /\ GetDuration(DegOfCall) - GetDuration(RefOfCall) = 1500
  /\ "WARNING: Mismatch in duration" \in Range(log)
  /\ "PopulateSimResultMsg" \in Range(trace)
  /\ IsOk(ret)

\* C11: an Init call in speech mode returns OK and leaves the manager
\* initialized, whatever the model path and the unscaled-mapping flag.
C11_SpeechInitSucceeds ==
  (pc = "returned" /\ op = "Init" /\ args[2] = TRUE)
    => (ret = OkStatus /\ is_initialized_ /\ log = <<>>)

\* Init in speech mode with the empty model path and the unscaled mapping
\* returned OK.
C11_Witness ==
  /\ pc = "returned"
  /\ op = "Init"
  /\ args = <<"", TRUE, TRUE>>
  /\ ret = OkStatus
  /\ is_initialized_

\* The steps of a comparison by signals, in their order.
SignalSteps ==
  <<"ErrorIfNotInitialized", "ValidateInputAudio", "GloballyAlign",
    "CalculateSimilarity", "PopulateSimResultMsg">>

\* The steps of a comparison by paths, in their order: the check, the two
\* loads, then the steps of the comparison by signals on what was loaded.
PathSteps == <<"ErrorIfNotInitialized", "LoadAsMono", "LoadAsMono">> \o SignalSteps

\* seq is the first n elements of steps, for some n.
IsPrefix(seq, steps) ==
  Len(seq) <= Len(steps) /\ seq = SubSeq(steps, 1, Len(seq))

\* C13: the steps of a single comparison are an initial part of the fixed
\* order check, (loads,) validation, alignment, similarity calculation,
\* population, ending at the step that failed: nothing is loaded, validated or
\* aligned on a manager that is not initialized, and nothing is aligned or
\* calculated when validation fails.
C13_StepsInOrder ==
  ComparisonReturned
    => /\ IsPrefix(trace, IF op = "RunSignals" THEN SignalSteps ELSE PathSteps)
       /\ trace[1] = "ErrorIfNotInitialized"
       /\ ret.status = NotInitializedStatus => trace = <<"ErrorIfNotInitialized">>
       /\ ~is_initialized_ => "LoadAsMono" \notin Range(trace)
       /\ (RefOfCall.sample_rate # DegOfCall.sample_rate)
            => {"GloballyAlign", "CalculateSimilarity", "PopulateSimResultMsg"}
                 \cap Range(trace) = {}
       /\ IsOk(ret) <=> "PopulateSimResultMsg" \in Range(trace)
       /\ "CalculateSimilarity" \in Range(trace) => "GloballyAlign" \in Range(trace)

\* A comparison by paths on a manager that is not initialized stopped at the
\* check.
C13_Witness ==
  /\ pc = "returned"
  /\ op = "RunPaths"
  /\ ~is_initialized_
  /\ trace = <<"ErrorIfNotInitialized">>

\* The sample-rate warning is in the log exactly when the reference sample
\* rate deviates from what the mode expects.
SampleRateWarnedAsExpected ==
  /\ ("WARNING: sample rate is above 16kHz" \in Range(log))
       <=> (use_speech_mode_ /\ RefOfCall.sample_rate > k16kSampleRate)
  /\ ("WARNING: not the expected sample rate of 48kHz" \in Range(log))
       <=> (~use_speech_mode_ /\ RefOfCall.sample_rate # k48kSampleRate)

DurationWarnedAsExpected ==
  ("WARNING: Mismatch in duration" \in Range(log))
    <=> DurationsMismatch(RefOfCall, DegOfCall)

\* C14 as stated: for every validated pair, also one of different sample
\* rates, the sample-rate warning is raised exactly when the reference rate
\* deviates from the mode's expected value, and the duration warning exactly
\* when the durations differ by more than 1.0.
C14_WarningsForEveryPair ==
  (ComparisonReturned /\ "ValidateInputAudio" \in Range(trace))
    => (SampleRateWarnedAsExpected /\ DurationWarnedAsExpected)

\* C14 as amended: for every validated pair the duration warning is raised
\* exactly when the durations differ by more than 1.0; the sample-rate warning
\* is raised, exactly when the reference rate deviates from the mode's
\* expected value, only for pairs of equal sample rates.  For a pair of
\* different sample rates validation returns before the sample-rate tests and
\* raises no sample-rate warning.
C14_WarningsForMatchingRates ==
  (ComparisonReturned /\ "ValidateInputAudio" \in Range(trace))
    => /\ DurationWarnedAsExpected
       /\ IF RefOfCall.sample_rate = DegOfCall.sample_rate
            THEN SampleRateWarnedAsExpected
            ELSE /\ "WARNING: sample rate is above 16kHz" \notin Range(log)
                 /\ "WARNING: not the expected sample rate of 48kHz" \notin Range(log)

\* In speech mode a pair of 48 kHz signals 1.5 s apart in duration raised both
\* warnings and was compared.
C14_Witness ==
  /\ ComparisonReturned
  /\ use_speech_mode_
  /\ RefOfCall.sample_rate = k48kSampleRate
  /\ DegOfCall.sample_rate = k48kSampleRate
  /\ log = <<"WARNING: Mismatch in duration", "WARNING: sample rate is above 16kHz">>
  /\ "CalculateSimilarity" \in Range(trace)

\* The installed components are those Init installs for the mode, the
\* unscaled-mapping flag and the model path.
InstalledFor(model, speech_mode, unscaled) ==
  /\ patch_selector_ = [kind |-> "ComparisonPatchesSelector",
                        sim_comparator |-> "NeurogramSimiliarityIndexMeasure"]
  /\ IF speech_mode
       THEN /\ patch_creator_ = [kind |-> "VadPatchCreator", patch_size |-> 20]
            /\ spectrogram_builder_ =
                 [kind |-> "GammatoneSpectrogramBuilder",
                  filter_bank |-> [num_bands |-> 21, min_freq |-> 50],
                  use_speech_mode |-> TRUE]
            /\ sim_to_qual_ = [kind |-> "SpeechSimilarityToQualityMapper",
                               scale_to_max_mos |-> (unscaled = FALSE)]
       ELSE /\ patch_creator_ = [kind |-> "ImagePatchCreator", patch_size |-> 30]
            /\ spectrogram_builder_ =
                 [kind |-> "GammatoneSpectrogramBuilder",
                  filter_bank |-> [num_bands |-> 32, min_freq |-> 50],
                  use_speech_mode |-> FALSE]
            /\ sim_to_qual_ = [kind |-> "SvrSimilarityToQualityMapper",
                               model_path |-> model]

\* C15: after every Init call, successful or failed, the flags and the four
\* components are those of the mode passed to the call; and in every state the
\* components are either all absent (no Init call yet) or all those of the
\* mode the flags hold, never a mixture of the two modes.
C15_ComponentsAgreeWithMode ==
  /\ (pc = "returned" /\ op = "Init")
       => /\ use_speech_mode_ = args[2]
          /\ use_unscaled_speech_mos_mapping_ = args[3]
          /\ InstalledFor(args[1], args[2], args[3])
  /\ \/ /\ last_init = <<>>
        /\ patch_creator_ = NullPtr /\ patch_selector_ = NullPtr
        /\ spectrogram_builder_ = NullPtr /\ sim_to_qual_ = NullPtr
     \/ /\ last_init # <<>>
        /\ \E model \in ModelPaths :
             InstalledFor(model, use_speech_mode_, use_unscaled_speech_mos_mapping_)

\* An Init call in speech mode that followed a failed one in full-audio mode
\* left the speech components installed.
C15_Witness ==
  /\ pc = "returned"
  /\ op = "Init"
  /\ args[2] = TRUE
  /\ args[3] = FALSE
  /\ sim_to_qual_.kind = "SpeechSimilarityToQualityMapper"
  /\ sim_to_qual_.scale_to_max_mos = TRUE
  /\ spectrogram_builder_.filter_bank.num_bands = 21

\* Two sequences of one length holding the same element at every index.
SameSeq(a, b) == Len(a) = Len(b) /\ \A i \in 1..Len(a) : a[i] = b[i]

\* The patch entry carries every field of the PatchMatch.
FaithfulPatch(entry, patch) ==
  /\ entry.similarity = patch.similarity
  /\ entry.ref_patch_start_time = patch.ref_patch_start_time
  /\ entry.ref_patch_end_time = patch.ref_patch_end_time
  /\ entry.deg_patch_start_time = patch.deg_patch_start_time
  /\ entry.deg_patch_end_time = patch.deg_patch_end_time
  /\ SameSeq(entry.freq_band_means, patch.freq_band_means)

\* The result record is a faithful copy of the SimilarityResult.
Faithful(msg, sim_result) ==
  /\ msg.moslqo = sim_result.moslqo
  /\ msg.vnsim = sim_result.vnsim
  /\ SameSeq(msg.fvnsim, sim_result.fvnsim)
  /\ SameSeq(msg.center_freq_bands, sim_result.center_freq_bands)
  /\ Len(msg.patch_sims) = Len(sim_result.debug_info.patch_sims)
  /\ \A i \in 1..Len(msg.patch_sims) :
       FaithfulPatch(msg.patch_sims[i], sim_result.debug_info.patch_sims[i])

\* C16: the result record a comparison returns, alone or as the latest entry of
\* a batch, is a faithful copy of the SimilarityResult CalculateSimilarity
\* returned to that comparison: equal moslqo and vnsim, fvnsim and centre
\* frequencies equal index by index, and one patch entry per PatchMatch, in
\* order, with every field of the match.
C16_FaithfulCopy ==
  /\ (ComparisonReturned /\ IsOk(ret))
       => /\ similarity # <<>>
          /\ IsOk(similarity[1])
          /\ Faithful(ret.value[1], similarity[1].value[1])
  /\ (op = "RunBatch" /\ attempts # <<>> /\ IsOk(attempts[Len(attempts)].status_or))
       => /\ similarity # <<>>
          /\ IsOk(similarity[1])
          /\ sim_results # <<>>
          /\ Faithful(sim_results[Len(sim_results)], similarity[1].value[1])

\* A comparison returned a record built from a result of two patch matches.
C16_Witness ==
  /\ ComparisonReturned
  /\ IsOk(ret)
  /\ Len(similarity[1].value[1].debug_info.patch_sims) = 2
  /\ Len(ret.value[1].patch_sims) = 2
  /\ Len(ret.value[1].fvnsim) = 2

\* C17: once an Init call has succeeded the manager stays initialized: no
\* comparison, single or as a pair of a batch, fails with NotInitialized,
\* whatever Init calls, successful or failed, and comparisons come after; and
\* is_initialized_ never goes from true back to false.
C17_InitializationNeverUndone ==
  /\ [](init_succeeded => is_initialized_)
  /\ []((ComparisonReturned /\ init_succeeded) => ret.status # NotInitializedStatus)
  /\ []((op = "RunBatch" /\ init_succeeded)
          => \A k \in 1..Len(attempts) :
               attempts[k].status_or.status # NotInitializedStatus)
  /\ [][is_initialized_ => is_initialized_']_vars

\* A comparison went past the initialization check after an Init call that
\* failed, an earlier one having succeeded.
C17_Witness ==
  /\ ComparisonReturned
  /\ init_succeeded
  /\ last_init[1].status.error_code # "OK"
  /\ is_initialized_
  /\ "ValidateInputAudio" \in Range(trace)

\* C18: a batch call, once made, returns; it attempts the pairs one by one in
\* input order, each at most once, and what it returns is no longer than its
\* input; on a manager that is not initialized it attempts the first pair only,
\* if there is one, and returns the empty list.
C18_BatchTerminates ==
  /\ []((op = "RunBatch" /\ pc # "idle")
          => /\ Len(attempts) <= Len(signals_to_compare)
             /\ \A k \in 1..Len(attempts) : attempts[k].index = k
             /\ Len(sim_results) <= Len(attempts)
             /\ pc = "returned"
                  => /\ ret = sim_results
                     /\ Len(ret) <= Len(signals_to_compare)
             /\ (pc = "returned" /\ ~is_initialized_)
                  => /\ Len(attempts) = IF signals_to_compare = <<>> THEN 0 ELSE 1
                     /\ ret = <<>>)
  /\ (pc \in {"loop", "return"}) ~> BatchReturned

\* A batch on an initialized manager returned after attempting each of its
\* pairs, with fewer results than pairs.
C18_Witness ==
  /\ BatchReturned
  /\ is_initialized_
  /\ Len(signals_to_compare) = MaxBatch
  /\ Len(attempts) = MaxBatch
  /\ Len(ret) < MaxBatch

\* What the call of a thread returns and leaves behind when it runs alone on
\* the manager, global alignment finding the same lag and CalculateSimilarity
\* returning the same outcome.
Alone(thread) ==
  LET lag == IF thread.alignment = <<>> THEN 0 ELSE thread.alignment[1][2]
      outcome == IF thread.similarity = <<>>
                   THEN CHOOSE o \in SimilarityOutcomes : TRUE
                   ELSE thread.similarity[1]
  IN  RunSignals(thread.args[1], thread.args[2], lag, outcome)

SameAsAlone(thread) ==
  LET alone == Alone(thread)
  IN  /\ thread.ret = <<alone.return>>
      /\ thread.deg_signal = <<alone.deg_signal>>
      /\ thread.alignment = alone.alignment
      /\ thread.similarity = alone.similarity
      /\ thread.log = alone.log
      /\ thread.calc = alone.calc

\* C12: whatever the interleaving of the statements of concurrent comparison
\* calls on one manager, each call returns what it returns when run alone (the
\* same failure or the same result, the same aligned signal, the same log), and
\* no statement of a comparison writes a member of the manager.
C12_ConcurrentComparisons ==
  /\ [](\A t \in Threads : threads[t].pc = "done" => SameAsAlone(threads[t]))
  /\ [][threads' # threads => UNCHANGED manager]_vars

\* One call has returned a result while another, started before it returned,
\* is about to call CalculateSimilarity.
C12_Witness ==
  /\ threads["t1"].pc = "done"
  /\ IsOk(threads["t1"].ret[1])
  /\ threads["t2"].pc = "CalculateSimilarity"
  /\ threads["t2"].log # <<>>

====
